---- MODULE Spec2Model ----
(***************************************************************************)
(* Beam-vehicle selection of paper-cmab.py: the per-tick allocation loop   *)
(* (MyScenario.do_mobility), the four selection algorithms (RandomSelection,*)
(* HighestCQI, MAB, CMAB), the per-beam connection statistics (Stats) and  *)
(* the periodic report (show_outcome).                                     *)
(*                                                                         *)
(* The radio channel, the mobility model and the event scheduler are the   *)
(* simulator's: a tick draws the outcome of every handshake (cqi, 0 for a  *)
(* handshake that fails) and every vehicle's speed, distance and heading.  *)
(***************************************************************************)
EXTENDS Integers, Sequences, FiniteSets, TLC

\* ------------------------------------------------------------------ bounds
NumBeams == 2
NumVehicles == 2
MaxTime == 3
MaxCqi == 2
MaxCapacity == 3

\* ------------------------------------------------------- program constants
\* sim.param["timescale"] = 1.0, handed to MAB/CMAB as time_unit
time_unit == 1
\* sim_show_progress = 0.05, kept as the denominator of 1/20
ProgressDen == 20
\* dir_group = 4, dir_width = 360/dir_group
dir_group == 4
FullCircle == 360
\* speed thresholds (km/h) and distance thresholds of CMAB.get_context
SpeedSlow == 40
SpeedMed == 50
DistNear == 180
DistMed == 360

None == -1
NoPair == <<>>
NoReward == <<>>

Beams == 1..NumBeams
Vehicles == 1..NumVehicles
\* scenario.bs_beams / scenario.all_vehicles in creation order
all_beams == [i \in 1..NumBeams |-> i]
all_vehicles == [i \in 1..NumVehicles |-> i]

Policies == {"Random", "HighestCQI", "MAB", "CMAB"}
IsBandit(p) == p \in {"MAB", "CMAB"}

\* the run lengths ("stop time") a run is configured with, in ticks
StopTimes == {MaxTime, 10 * MaxTime}
\* "mab exploration stop time": the first tick, or the first two, explore
ExplorationStops == {2, 3}

\* speed / distance / heading samples a vehicle can show at a tick
Profiles ==
    { [speed |-> 35, dist |-> 100, dir |-> 45],
      [speed |-> 45, dist |-> 200, dir |-> 135] }
Profile0 == [speed |-> 35, dist |-> 100, dir |-> 45]

VARIABLES
    policy,                 \* my_algorithm (its class)
    max_active_beam,        \* scenario.max_active_beam
    stop_time,              \* get_setting("stop time")
    exploration_stop_time,  \* CMAB.exploration_stop_time
    use_speed,              \* CMAB.use_speed
    sim_time,               \* the time of the current event
    sim_next_progress,      \* in units of sim_show_progress
    serving_node,           \* beam.serving_node
    associated_bs,          \* vehicle.associated_bs
    stats,                  \* my_algorithm.stats
    stats2,                 \* my_algorithm.stats2
    arm_total_reward,       \* CMAB.arm_total_reward (dict)
    arm_total_count,        \* CMAB.arm_total_count (dict)
    arm_info,               \* CMAB.arm_info (dict)
    total_pulled,           \* CMAB.total_pulled
    cqi,                    \* the tick's handshake outcomes, beam x vehicle
    attrs,                  \* the tick's vehicle speed / distance / heading
    pc,                     \* position in on_event / do_mobility
    num_active_beam,        \* local of do_mobility
    pair                    \* local of do_mobility

progvars == << policy, max_active_beam, stop_time, exploration_stop_time,
               use_speed, sim_time, sim_next_progress, serving_node,
               associated_bs, stats, stats2, arm_total_reward,
               arm_total_count, arm_info, total_pulled, cqi, attrs, pc,
               num_active_beam, pair >>

\* History of the run, written by no line of the program: what the
\* connections that were made and lost amount to.
VARIABLES
    h_start,        \* per beam: the tick its open connection was made, or None
    h_key,          \* per beam: the context of its open connection at that tick
    h_time,         \* per beam: the durations of its ended connections, summed
    h_conn,         \* per beam: the number of its ended connections
    h_arm_time,     \* per context: the durations of the ended connections made in it
    h_arm_conn,     \* per context: the number of ended connections made in it
    h_reset,        \* the time of the last show_outcome, or None
    h_lost          \* per beam: the start of the connection it lost in this tick, or None

histvars == << h_start, h_key, h_time, h_conn, h_arm_time, h_arm_conn,
               h_reset, h_lost >>

\* One Stats object driven directly, call by call
VARIABLES
    trk,            \* the Stats object
    trk_before,     \* the object before the last call
    trk_call,       \* the last call: "none", "begin", "end" or "reset"
    trk_open,       \* whether a connection was begun and has not been ended since
    trk_was_open,   \* trk_open before the last call
    trk_raised,     \* whether the last call raised
    trk_clock       \* the time handed to the last call

trkvars == << trk, trk_before, trk_call, trk_open, trk_was_open, trk_raised,
              trk_clock >>

\* The report of show_outcome, and what happened since
VARIABLES
    outcome,        \* outcome[curr_progress] of the last show_outcome: per beam
                    \* (Overall Mean, Overall Count), <<>> before the first
    outcome2,       \* outcome2[curr_progress]: per beam (Session Mean, Session Count)
    h_events,       \* whether a connection was made or lost since the last show_outcome
    h_repeat        \* whether the last show_outcome followed another with none between

repvars == << outcome, outcome2, h_events, h_repeat >>

\* History of the current tick, cleared when do_mobility returns
VARIABLES
    h_calls,        \* the do_pairing calls made in this tick
    h_none,         \* whether one of them returned None
    h_free,         \* max_active_beam less the beams serving after the release loop
    h_lost_key,     \* per beam: the context, at its start, of the connection lost in this tick
    h_lost_veh      \* per beam: the vehicle of the connection lost in this tick, or None

tickvars == << h_calls, h_none, h_free, h_lost_key, h_lost_veh >>

\* CMAB.get_context called directly, call by call
VARIABLES
    ctx_call        \* the last call: its beam, vehicle profile, use_speed and the key returned

ctxvars == << ctx_call >>

vars == << progvars, histvars, trkvars, repvars, tickvars, ctxvars >>

\* ------------------------------------------------------------------ Stats
Stats_init == [conn_start_time |-> None, total_time |-> 0, total_conn |-> 0]

\* conn_begin that counts the connection from the next tick on
conn_begin_late(s, sim) == [s EXCEPT !.conn_start_time = sim + time_unit]

conn_begin(s, sim) == [s EXCEPT !.conn_start_time = sim]

\* sim_time - None raises TypeError before anything is assigned
conn_end_raises(s) == s.conn_start_time = None

\* conn_end that forgets when the connection began
conn_end_since_zero(s, sim) ==
    [s EXCEPT !.total_time = @ + sim, !.total_conn = @ + 1]

conn_end(s, sim) ==
    [s EXCEPT !.total_time = @ + (sim - s.conn_start_time),
              !.total_conn = @ + 1]

\* reset that starts the object afresh
reset_all(s) == [s EXCEPT !.conn_start_time = None, !.total_time = 0, !.total_conn = 0]

\* reset that leaves the totals as they are
reset_nothing(s) == s

reset(s) == [s EXCEPT !.total_time = 0, !.total_conn = 0]

get_connection_count(s) == s.total_conn

\* 0 if total_conn==0 else total_time/total_conn, as a fraction << num, den >>
get_average_connection_time(s) ==
    IF s.total_conn = 0 THEN << 0, 1 >> ELSE << s.total_time, s.total_conn >>

\* ------------------------------------------------- simulator collaborators
\* transceiver.broadcast: the vehicles the beacon reaches, in node order
broadcast(beam, q) == SelectSeq(all_vehicles, LAMBDA v : q[beam][v] > 0)

\* transceiver.unicast of the reply: its quality, 0 when it is not received
unicast(vehicle, beam, q) == q[beam][vehicle]

\* CommModule.send_hello_to: (outcome, cqi)
send_hello_to(beam, vehicle, q) ==
    IF q[beam][vehicle] > 0 THEN <<TRUE, q[beam][vehicle]>> ELSE <<FALSE, None>>

\* ------------------------------------------------------------ get_context
speed_str(speed) ==
    IF speed < SpeedSlow THEN "slow" ELSE IF speed < SpeedMed THEN "med " ELSE "fast"

\* dist<=180, dist<=360
dist_str_inclusive(dist) ==
    IF dist <= DistNear THEN "near" ELSE IF dist <= DistMed THEN "med " ELSE "far "

dist_str(dist) ==
    IF dist < DistNear THEN "near" ELSE IF dist < DistMed THEN "med " ELSE "far "

\* the first i in 1..dir_group with 360*i/dir_group >= dir, 0 when there is none
RECURSIVE dir_from(_, _)
dir_from(i, dir) ==
    IF i >= dir_group THEN 0
    ELSE IF dir * dir_group <= FullCircle * (i + 1) THEN i + 1
    ELSE dir_from(i + 1, dir)

dir_index(dir) == dir_from(0, dir)

CMAB_get_context(beam, a, speed_on) ==
    << beam,
       IF speed_on THEN speed_str(a.speed) ELSE "",
       dist_str(a.dist),
       dir_index(a.dir) >>

\* one context for all beams
MAB_get_context_one_arm(beam, a, speed_on) == << 1, "", "", 0 >>

MAB_get_context(beam, a, speed_on) == << beam, "", "", 0 >>

get_context(p, beam, a, speed_on) ==
    IF p = "MAB" THEN MAB_get_context(beam, a, speed_on)
    ELSE CMAB_get_context(beam, a, speed_on)

\* ---------------------------------------------------------- get_past_reward
\* get_past_reward without the test of the count
get_past_reward_any_count(context, reward, count) ==
    IF context \in DOMAIN reward
    THEN << reward[context] * time_unit, count[context] >>
    ELSE NoReward

\* get_past_reward with a reward of zero for a context without pulls
get_past_reward_zero(context, reward, count) ==
    IF context \in DOMAIN reward /\ count[context] # 0
    THEN << reward[context] * time_unit, count[context] >>
    ELSE << 0, 1 >>

\* the mean reward as the fraction <<numerator, denominator>>
get_past_reward(context, reward, count) ==
    IF context \in DOMAIN reward /\ count[context] # 0
    THEN << reward[context] * time_unit, count[context] >>
    ELSE NoReward

\* predicted_reward > highest_reward on fractions with positive denominators
RewardGreater(p, h) == p[1] * h[2] > h[1] * p[2]

\* ------------------------------------------------- RandomSelection.do_pairing
\* the idle beams of all_beams[:-1]
available_beams_but_last(sn) ==
    SelectSeq(SubSeq(all_beams, 1, NumBeams - 1), LAMBDA b : sn[b] = None)

\* available_beams = [beam for beam in all_beams if beam.serving_node==None]
available_beams(sn) == SelectSeq(all_beams, LAMBDA b : sn[b] = None)

\* the inner loop without "if vehicle.associated_bs!=None: continue"
Random_takes_served(beam, vehicle, ab, q) == send_hello_to(beam, vehicle, q)[1]

\* whether the inner loop of RandomSelection.do_pairing appends the vehicle
Random_takes(beam, vehicle, ab, q) ==
    /\ ab[vehicle] = None
    /\ send_hello_to(beam, vehicle, q)[1]

\* available_vehicle_list of one beam: the (vehicle, cqi) pairs appended
available_vehicle_list(beam, ab, q) ==
    LET heard == SelectSeq(broadcast(beam, q),
                           LAMBDA v : Random_takes(beam, v, ab, q))
    IN  [k \in 1..Len(heard) |-> << heard[k], send_hello_to(beam, heard[k], q)[2] >>]

\* the while loop: every result a sequence of random.choice draws can give.
\* `avail` is the set of beams still in available_beams.
RECURSIVE RandomSelection_loop(_, _, _)
RandomSelection_loop(avail, ab, q) ==
    IF avail = {} THEN {NoPair}
    ELSE UNION {
           LET vl == available_vehicle_list(beam, ab, q)
           IN  IF Len(vl) = 0
               THEN RandomSelection_loop(avail \ {beam}, ab, q)
               ELSE { << beam, vl[k][1], vl[k][2] >> : k \in 1..Len(vl) }
           : beam \in avail }

RandomSelection_do_pairing(sn, ab, q) ==
    RandomSelection_loop({b \in Beams : sn[b] = None}, ab, q)

\* the beam is left in available_beams
Random_keep(avail, beam) == avail

\* available_beams.remove(beam)
Random_remove(avail, beam) == avail \ {beam}

\* iterations after which a run of the while loop is cut off: one per beam
\* that can be removed, and one more
MaxPicks == NumBeams + 1

\* the while loop again, with the beams random.choice picked, in order: every
\* run the draws can give. A run still looping after `fuel` iterations is
\* returned with done = FALSE.
RECURSIVE RandomSelection_runs(_, _, _, _, _)
RandomSelection_runs(avail, ab, q, picked, fuel) ==
    IF avail = {} THEN {[pair |-> NoPair, picked |-> picked, done |-> TRUE]}
    ELSE IF fuel = 0 THEN {[pair |-> NoPair, picked |-> picked, done |-> FALSE]}
    ELSE UNION {
           LET vl == available_vehicle_list(beam, ab, q)
           IN  IF Len(vl) = 0
               THEN RandomSelection_runs(Random_remove(avail, beam), ab, q,
                                         Append(picked, beam), fuel - 1)
               ELSE { [pair |-> << beam, vl[k][1], vl[k][2] >>,
                       picked |-> Append(picked, beam), done |-> TRUE]
                      : k \in 1..Len(vl) }
           : beam \in avail }

\* ------------------------------------------------------ HighestCQI.do_pairing
\* cqi >= max_cqi
HighestCQI_better_or_equal(c, max_cqi) == max_cqi = None \/ c >= max_cqi

\* cqi > max_cqi, with max_cqi None before the first candidate
HighestCQI_better(c, max_cqi) == max_cqi = None \/ c > max_cqi

\* the two nested for loops, at beam avail[bi] and entry vi of its vehicle_list
RECURSIVE HighestCQI_scan(_, _, _, _, _, _)
HighestCQI_scan(bi, vi, acc, avail, ab, q) ==
    IF bi > Len(avail) THEN acc
    ELSE LET beam == avail[bi]
             vehicle_list == broadcast(beam, q)
         IN  IF vi > Len(vehicle_list)
             THEN HighestCQI_scan(bi + 1, 1, acc, avail, ab, q)
             ELSE LET vehicle == vehicle_list[vi]
                      c == unicast(vehicle, beam, q)
                  IN  IF ab[vehicle] # None \/ c = 0
                      THEN HighestCQI_scan(bi, vi + 1, acc, avail, ab, q)
                      ELSE IF HighestCQI_better(c, acc.max_cqi)
                      THEN HighestCQI_scan(bi, vi + 1,
                             [max_cqi |-> c, selected_pair |-> << beam, vehicle, c >>],
                             avail, ab, q)
                      ELSE HighestCQI_scan(bi, vi + 1, acc, avail, ab, q)

HighestCQI_do_pairing(sn, ab, q) ==
    LET avail == available_beams(sn)
    IN  IF Len(avail) = 0 THEN NoPair
        ELSE HighestCQI_scan(1, 1, [max_cqi |-> None, selected_pair |-> NoPair],
                             avail, ab, q).selected_pair

\* ------------------------------------------------------------ CMAB.do_pairing
\* highest_reward = -1
\* highest_reward = 1
InitialHighest_one == << 1, 1 >>

\* highest_reward = -1
InitialHighest == << -1, 1 >>

\* predicted_reward != None and predicted_reward > highest_reward
CMAB_better(predicted, highest) ==
    predicted # NoReward /\ RewardGreater(predicted, highest)

\* the exploitation scan, at beam avail[bi] and entry vi of its vehicle_list
RECURSIVE CMAB_scan(_, _, _, _, _, _, _)
CMAB_scan(bi, vi, acc, avail, ab, q, c) ==
    IF bi > Len(avail) THEN acc
    ELSE LET beam == avail[bi]
             vehicle_list == broadcast(beam, q)
         IN  IF vi > Len(vehicle_list)
             THEN CMAB_scan(bi + 1, 1, acc, avail, ab, q, c)
             ELSE LET vehicle == vehicle_list[vi]
                      quality == unicast(vehicle, beam, q)
                      context == get_context(c.policy, beam, c.attrs[vehicle], c.use_speed)
                      predicted == get_past_reward(context, c.reward, c.count)
                  IN  IF ab[vehicle] # None \/ quality = 0
                      THEN CMAB_scan(bi, vi + 1, acc, avail, ab, q, c)
                      ELSE IF CMAB_better(predicted, acc.highest_reward)
                      THEN CMAB_scan(bi, vi + 1,
                             [highest_reward |-> predicted,
                              selected_pair |-> << beam, vehicle, quality >>],
                             avail, ab, q, c)
                      ELSE CMAB_scan(bi, vi + 1, acc, avail, ab, q, c)

\* the exploitation branch: the pair returned and the new total_pulled
CMAB_exploit(sn, ab, q, c) ==
    LET avail == available_beams(sn)
    IN  IF Len(avail) = 0
        THEN [pair |-> NoPair, total_pulled |-> c.total_pulled]
        ELSE [pair |-> CMAB_scan(1, 1,
                         [highest_reward |-> InitialHighest, selected_pair |-> NoPair],
                         avail, ab, q, c).selected_pair,
              total_pulled |-> c.total_pulled + 1]

\* sim_time <= self.exploration_stop_time
Exploring_inclusive(sim, stop) == sim <= stop

\* sim_time < self.exploration_stop_time
Exploring(sim, stop) == sim < stop

\* every (pair, total_pulled) a call can return
CMAB_do_pairing(sim, sn, ab, q, c) ==
    IF Exploring(sim, c.exploration_stop_time)
    THEN { [pair |-> p, total_pulled |-> c.total_pulled + 1]
           : p \in RandomSelection_do_pairing(sn, ab, q) }
    ELSE { CMAB_exploit(sn, ab, q, c) }

\* my_algorithm.do_pairing(sim_time), by the class of my_algorithm
do_pairing(sim, sn, ab, q, c) ==
    IF c.policy = "Random"
    THEN { [pair |-> p, total_pulled |-> c.total_pulled]
           : p \in RandomSelection_do_pairing(sn, ab, q) }
    ELSE IF c.policy = "HighestCQI"
    THEN { [pair |-> HighestCQI_do_pairing(sn, ab, q), total_pulled |-> c.total_pulled] }
    ELSE CMAB_do_pairing(sim, sn, ab, q, c)

\* --------------------------------------------- beam / vehicle bookkeeping
\* The operations below act on a record w of the objects a tick changes:
\* serving_node, associated_bs, stats, stats2, reward, count, arm_info, and
\* crashed (an exception left do_mobility).

\* lost_vehicle without the call of lost_bs
lost_vehicle_beam_only(w, beam) == [w EXCEPT !.serving_node[beam] = None]

\* MyBaseStationBeam.lost_vehicle with MyVehicle.lost_bs
lost_vehicle(w, beam) ==
    [w EXCEPT !.associated_bs[w.serving_node[beam]] = None,
              !.serving_node[beam] = None]

\* MyBaseStationBeam.connect_vehicle with MyVehicle.connect_bs
connect_vehicle(w, beam, vehicle) ==
    [w EXCEPT !.serving_node[beam] = vehicle,
              !.associated_bs[vehicle] = beam]

\* report_conn_confirmed that tells stats and forgets stats2
VSA_report_conn_confirmed_stats_only(w, sim, beam) ==
    [w EXCEPT !.stats[beam] = conn_begin(@, sim)]

\* VehicleSelectionAlgorithm.report_conn_confirmed
VSA_report_conn_confirmed(w, sim, beam) ==
    [w EXCEPT !.stats[beam] = conn_begin(@, sim),
              !.stats2[beam] = conn_begin(@, sim)]

\* report_conn_lost that tells stats and forgets stats2
VSA_report_conn_lost_stats_only(w, sim, beam) ==
    IF conn_end_raises(w.stats[beam]) THEN [w EXCEPT !.crashed = TRUE]
    ELSE [w EXCEPT !.stats[beam] = conn_end(@, sim)]

\* VehicleSelectionAlgorithm.report_conn_lost
VSA_report_conn_lost(w, sim, beam) ==
    IF conn_end_raises(w.stats[beam]) THEN [w EXCEPT !.crashed = TRUE]
    ELSE LET w1 == [w EXCEPT !.stats[beam] = conn_end(@, sim)]
         IN  IF conn_end_raises(w1.stats2[beam]) THEN [w1 EXCEPT !.crashed = TRUE]
             ELSE [w1 EXCEPT !.stats2[beam] = conn_end(@, sim)]

\* a dict with d[key] = value set
DictSet(d, key, value) ==
    [k \in DOMAIN d \cup {key} |-> IF k = key THEN value ELSE d[k]]

\* "initialize the reward var if needed": the value a new key starts with
ArmStart == 0

\* report_conn_confirmed that starts the record anew at every connection
CMAB_report_conn_confirmed_anew(w, sim, beam, vehicle, context) ==
    LET w1 == VSA_report_conn_confirmed(w, sim, beam)
        w2 == [w1 EXCEPT !.reward = DictSet(@, context, ArmStart),
                         !.count = DictSet(@, context, ArmStart)]
    IN  [w2 EXCEPT !.arm_info = DictSet(@, vehicle, << context, sim >>)]

\* report_conn_confirmed that keeps the arm_info a vehicle already has
CMAB_report_conn_confirmed_keep_info(w, sim, beam, vehicle, context) ==
    LET w1 == VSA_report_conn_confirmed(w, sim, beam)
        w2 == IF context \notin DOMAIN w1.reward
              THEN [w1 EXCEPT !.reward = DictSet(@, context, ArmStart),
                              !.count = DictSet(@, context, ArmStart)]
              ELSE w1
    IN  IF vehicle \in DOMAIN w2.arm_info THEN w2
        ELSE [w2 EXCEPT !.arm_info = DictSet(@, vehicle, << context, sim >>)]

\* CMAB.report_conn_confirmed
CMAB_report_conn_confirmed(w, sim, beam, vehicle, context) ==
    LET w1 == VSA_report_conn_confirmed(w, sim, beam)
        w2 == IF context \notin DOMAIN w1.reward
              THEN [w1 EXCEPT !.reward = DictSet(@, context, ArmStart),
                              !.count = DictSet(@, context, ArmStart)]
              ELSE w1
    IN  [w2 EXCEPT !.arm_info = DictSet(@, vehicle, << context, sim >>)]

\* report_conn_lost that adds the end time instead of the duration
CMAB_report_conn_lost_end_time(w, sim, beam, vehicle) ==
    LET w1 == VSA_report_conn_lost(w, sim, beam)
    IN  IF w1.crashed THEN w1
        ELSE IF vehicle \notin DOMAIN w1.arm_info THEN [w1 EXCEPT !.crashed = TRUE]
        ELSE LET context == w1.arm_info[vehicle][1]
             IN  [w1 EXCEPT !.reward[context] = @ + sim,
                            !.count[context] = @ + 1]

\* CMAB.report_conn_lost; arm_info[vehicle] of a missing key raises KeyError
CMAB_report_conn_lost(w, sim, beam, vehicle) ==
    LET w1 == VSA_report_conn_lost(w, sim, beam)
    IN  IF w1.crashed THEN w1
        ELSE IF vehicle \notin DOMAIN w1.arm_info THEN [w1 EXCEPT !.crashed = TRUE]
        ELSE LET context == w1.arm_info[vehicle][1]
                 start_time == w1.arm_info[vehicle][2]
             IN  [w1 EXCEPT !.reward[context] = @ + (sim - start_time),
                            !.count[context] = @ + 1]

report_conn_confirmed(p, w, sim, beam, vehicle, context) ==
    IF IsBandit(p) THEN CMAB_report_conn_confirmed(w, sim, beam, vehicle, context)
    ELSE VSA_report_conn_confirmed(w, sim, beam)

report_conn_lost(p, w, sim, beam, vehicle) ==
    IF IsBandit(p) THEN CMAB_report_conn_lost(w, sim, beam, vehicle)
    ELSE VSA_report_conn_lost(w, sim, beam)

\* ------------------------------------------------ do_mobility, first loop
\* "iterate all beams to check its vehicle connectivity", from all_beams[i] on
RECURSIVE check_connectivity(_, _, _, _, _)
check_connectivity(i, w, p, sim, q) ==
    IF i > NumBeams \/ w.crashed THEN w
    ELSE LET beam == all_beams[i]
             vehicle == w.serving_node[beam]
         IN  IF vehicle = None THEN check_connectivity(i + 1, w, p, sim, q)
             ELSE IF send_hello_to(beam, vehicle, q)[1]
             THEN check_connectivity(i + 1, w, p, sim, q)
             ELSE check_connectivity(i + 1,
                    report_conn_lost(p, lost_vehicle(w, beam), sim, beam, vehicle),
                    p, sim, q)

Serving_of(sn) == {b \in Beams : sn[b] # None}

\* "check for beam availability"
count_active(sn) == Cardinality({b \in Beams : sn[b] # None})

\* while num_active_beam <= self.max_active_beam
fill_more_inclusive(active, limit) == active <= limit

\* while num_active_beam < self.max_active_beam
fill_more(active, limit) == active < limit

\* one more connection counted after a commit
next_active(active) == active + 1

\* show_outcome: every beam's stats2 is reset after its figures are read
show_outcome(st2) == [b \in Beams |-> reset(st2[b])]

\* show_outcome: (this_average, this_count) of every beam, read from st
show_outcome_figures(st) ==
    [b \in Beams |-> << get_average_connection_time(st[b]),
                        get_connection_count(st[b]) >>]

\* sim_time/stop_time > sim_next_progress, sim_next_progress = n * 0.05
progress_due(sim, stop, n) == sim * ProgressDen > n * stop

\* ------------------------------------------------------------ state machine
Envs == [Beams -> [Vehicles -> 0..MaxCqi]]

\* speed, distance and heading are read by CMAB.get_context alone
AttrSets(p) == IF p = "CMAB" THEN [Vehicles -> Profiles] ELSE {[v \in Vehicles |-> Profile0]}

NoCqi == [b \in Beams |-> [v \in Vehicles |-> 0]]
NoAttrs == [v \in Vehicles |-> Profile0]
EmptyDict == <<>>
NoKey == << 0, "", "", 0 >>

\* every context key a tick of the model can compute
ContextKeys ==
    { get_context(p, b, a, s) :
        p \in {"MAB", "CMAB"}, b \in Beams, a \in Profiles, s \in BOOLEAN }

RECURSIVE SumOver(_, _)
SumOver(S, f) ==
    IF S = {} THEN 0
    ELSE LET x == CHOOSE y \in S : TRUE IN f[x] + SumOver(S \ {x}, f)

World ==
    [serving_node |-> serving_node, associated_bs |-> associated_bs,
     stats |-> stats, stats2 |-> stats2, reward |-> arm_total_reward,
     count |-> arm_total_count, arm_info |-> arm_info, crashed |-> FALSE]

\* what CMAB.do_pairing reads of the algorithm object
Algo ==
    [policy |-> policy, attrs |-> attrs, use_speed |-> use_speed,
     reward |-> arm_total_reward, count |-> arm_total_count,
     total_pulled |-> total_pulled,
     exploration_stop_time |-> exploration_stop_time]

TrkInit ==
    /\ trk = Stats_init
    /\ trk_before = Stats_init
    /\ trk_call = "none"
    /\ trk_open = FALSE
    /\ trk_was_open = FALSE
    /\ trk_raised = FALSE
    /\ trk_clock = 0

HistInit ==
    /\ h_start = [b \in Beams |-> None]
    /\ h_key = [b \in Beams |-> NoKey]
    /\ h_time = [b \in Beams |-> 0]
    /\ h_conn = [b \in Beams |-> 0]
    /\ h_arm_time = [k \in ContextKeys |-> 0]
    /\ h_arm_conn = [k \in ContextKeys |-> 0]
    /\ h_reset = None
    /\ h_lost = [b \in Beams |-> None]

\* on_create, and the settings of __main__
ProgInit ==
    /\ policy \in Policies
    /\ max_active_beam \in 1..MaxCapacity
    /\ stop_time \in StopTimes
    /\ exploration_stop_time \in (IF IsBandit(policy) THEN ExplorationStops ELSE {None})
    /\ use_speed = FALSE
    /\ sim_time = 0
    /\ sim_next_progress = 1
    /\ serving_node = [b \in Beams |-> None]
    /\ associated_bs = [v \in Vehicles |-> None]
    /\ stats = [b \in Beams |-> Stats_init]
    /\ stats2 = [b \in Beams |-> Stats_init]
    /\ arm_total_reward = EmptyDict
    /\ arm_total_count = EmptyDict
    /\ arm_info = EmptyDict
    /\ total_pulled = 0
    /\ cqi = NoCqi
    /\ attrs = NoAttrs
    /\ pc = "idle"
    /\ num_active_beam = 0
    /\ pair = NoPair

NoOutcome == <<>>

RepInit ==
    /\ outcome = NoOutcome
    /\ outcome2 = NoOutcome
    /\ h_events = FALSE
    /\ h_repeat = FALSE

TickInit ==
    /\ h_calls = 0
    /\ h_none = FALSE
    /\ h_free = 0
    /\ h_lost_key = [b \in Beams |-> NoKey]
    /\ h_lost_veh = [b \in Beams |-> None]

NoCall == <<>>

CtxInit == ctx_call = NoCall

Init == ProgInit /\ HistInit /\ TrkInit /\ RepInit /\ TickInit /\ CtxInit

config == << policy, max_active_beam, stop_time, exploration_stop_time, use_speed >>

\* on_event(SIM_MOBILITY): do_mobility up to "check for beam availability"
Mobility ==
    /\ pc = "idle"
    /\ sim_time < stop_time
    /\ sim_time < MaxTime
    /\ \E q \in Envs, a \in AttrSets(policy) :
         LET sim == sim_time + 1
             w == check_connectivity(1, World, policy, sim, q)
             lost == {b \in Beams : serving_node[b] # None /\ q[b][serving_node[b]] = 0}
         IN  /\ sim_time' = sim
             /\ cqi' = q
             /\ attrs' = a
             /\ serving_node' = w.serving_node
             /\ associated_bs' = w.associated_bs
             /\ stats' = w.stats
             /\ stats2' = w.stats2
             /\ arm_total_reward' = w.reward
             /\ arm_total_count' = w.count
             /\ arm_info' = w.arm_info
             /\ num_active_beam' = count_active(w.serving_node)
             /\ pc' = IF w.crashed THEN "crashed" ELSE "fill"
             /\ h_lost' = [b \in Beams |-> IF b \in lost THEN h_start[b] ELSE None]
             /\ h_start' = [b \in Beams |-> IF b \in lost THEN None ELSE h_start[b]]
             /\ h_key' = [b \in Beams |-> IF b \in lost THEN NoKey ELSE h_key[b]]
             /\ h_time' = [b \in Beams |->
                            IF b \in lost THEN h_time[b] + (sim - h_start[b]) ELSE h_time[b]]
             /\ h_conn' = [b \in Beams |-> IF b \in lost THEN h_conn[b] + 1 ELSE h_conn[b]]
             /\ h_arm_time' = [k \in ContextKeys |->
                  h_arm_time[k]
                  + SumOver({b \in lost : h_key[b] = k}, [b \in Beams |-> sim - h_start[b]])]
             /\ h_arm_conn' = [k \in ContextKeys |->
                  h_arm_conn[k] + Cardinality({b \in lost : h_key[b] = k})]
             /\ h_events' = (h_events \/ lost # {})
             /\ h_free' = max_active_beam - Cardinality(Serving_of(serving_node) \ lost)
             /\ h_lost_key' = [b \in Beams |-> IF b \in lost THEN h_key[b] ELSE NoKey]
             /\ h_lost_veh' = [b \in Beams |->
                                IF b \in lost THEN serving_node[b] ELSE None]
    /\ UNCHANGED << config, sim_next_progress, total_pulled, pair, h_reset, trkvars, ctxvars,
                    outcome, outcome2, h_repeat, h_calls, h_none >>

\* the while test and pair = my_algorithm.do_pairing(sim_time)
Choose ==
    /\ pc = "fill"
    /\ IF fill_more(num_active_beam, max_active_beam)
       THEN \E r \in do_pairing(sim_time, serving_node, associated_bs, cqi, Algo) :
              /\ pair' = r.pair
              /\ total_pulled' = r.total_pulled
              /\ pc' = "paired"
              /\ h_calls' = h_calls + 1
              /\ h_none' = (h_none \/ r.pair = NoPair)
       ELSE /\ pc' = "progress"
            /\ UNCHANGED << pair, total_pulled, h_calls, h_none >>
    /\ UNCHANGED << config, sim_time, sim_next_progress, serving_node, associated_bs,
                    stats, stats2, arm_total_reward, arm_total_count, arm_info,
                    cqi, attrs, num_active_beam, histvars, trkvars, ctxvars, repvars,
                    h_free, h_lost_key, h_lost_veh >>

\* if pair==None: break; else connect_vehicle and report_conn_confirmed
Commit ==
    /\ pc = "paired"
    /\ IF pair = NoPair
       THEN /\ pc' = "progress"
            /\ UNCHANGED << serving_node, associated_bs, stats, stats2,
                            arm_total_reward, arm_total_count, arm_info,
                            num_active_beam, h_start, h_key, h_events >>
       ELSE LET beam == pair[1]
                vehicle == pair[2]
                context == get_context(policy, beam, attrs[vehicle], use_speed)
                w == report_conn_confirmed(policy,
                         connect_vehicle(World, beam, vehicle),
                         sim_time, beam, vehicle, context)
            IN  /\ serving_node' = w.serving_node
                /\ associated_bs' = w.associated_bs
                /\ stats' = w.stats
                /\ stats2' = w.stats2
                /\ arm_total_reward' = w.reward
                /\ arm_total_count' = w.count
                /\ arm_info' = w.arm_info
                /\ num_active_beam' = next_active(num_active_beam)
                /\ pc' = "fill"
                /\ h_start' = [h_start EXCEPT ![beam] = sim_time]
                /\ h_key' = [h_key EXCEPT ![beam] =
                               IF IsBandit(policy) THEN context ELSE NoKey]
                /\ h_events' = TRUE
    /\ pair' = NoPair
    /\ UNCHANGED << config, sim_time, sim_next_progress, total_pulled, cqi, attrs,
                    h_time, h_conn, h_arm_time, h_arm_conn, h_reset, h_lost, trkvars, ctxvars,
                    outcome, outcome2, h_repeat, tickvars >>

\* the end of do_mobility: "show progress after progressing a certain percentage"
Progress ==
    /\ pc = "progress"
    /\ IF progress_due(sim_time, stop_time, sim_next_progress)
       THEN /\ stats2' = show_outcome(stats2)
            /\ outcome' = show_outcome_figures(stats)
            /\ outcome2' = show_outcome_figures(stats2)
            /\ sim_next_progress' = sim_next_progress + 1
            /\ h_reset' = sim_time
            /\ h_repeat' = (h_reset # None /\ ~h_events)
            /\ h_events' = FALSE
       ELSE UNCHANGED << stats2, sim_next_progress, h_reset, repvars >>
    /\ pc' = "idle"
    /\ cqi' = NoCqi
    /\ attrs' = NoAttrs
    /\ num_active_beam' = 0
    /\ h_lost' = [b \in Beams |-> None]
    /\ h_calls' = 0
    /\ h_none' = FALSE
    /\ h_free' = 0
    /\ h_lost_key' = [b \in Beams |-> NoKey]
    /\ h_lost_veh' = [b \in Beams |-> None]
    /\ UNCHANGED << config, sim_time, serving_node, associated_bs, stats,
                    arm_total_reward, arm_total_count, arm_info, total_pulled, pair,
                    h_start, h_key, h_time, h_conn, h_arm_time, h_arm_conn, trkvars, ctxvars >>

\* on_event(SIM_END): show_outcome(1.0)
SimEnd ==
    /\ pc = "idle"
    /\ sim_time >= stop_time
    /\ stats2' = show_outcome(stats2)
    /\ outcome' = show_outcome_figures(stats)
    /\ outcome2' = show_outcome_figures(stats2)
    /\ h_reset' = sim_time
    /\ h_repeat' = (h_reset # None /\ ~h_events)
    /\ h_events' = FALSE
    /\ pc' = "done"
    /\ UNCHANGED << config, sim_time, sim_next_progress, serving_node, associated_bs,
                    stats, arm_total_reward, arm_total_count, arm_info, total_pulled,
                    cqi, attrs, num_active_beam, pair,
                    h_start, h_key, h_time, h_conn, h_arm_time, h_arm_conn, h_lost,
                    trkvars, ctxvars, tickvars >>

Next == Mobility \/ Choose \/ Commit \/ Progress \/ SimEnd

Spec == Init /\ [][Next]_vars

\* ------------------------------------------------- a Stats object on its own
MaxCalls == 5

StatsBegin ==
    /\ trk_clock < MaxCalls
    /\ trk_clock' = trk_clock + 1
    /\ trk_before' = trk
    /\ trk_call' = "begin"
    /\ trk_was_open' = trk_open
    /\ trk_open' = TRUE
    /\ trk_raised' = FALSE
    /\ trk' = conn_begin(trk, trk_clock')
    /\ UNCHANGED << progvars, histvars, repvars, tickvars, ctxvars >>

StatsEnd ==
    /\ trk_clock < MaxCalls
    /\ trk_clock' = trk_clock + 1
    /\ trk_before' = trk
    /\ trk_call' = "end"
    /\ trk_was_open' = trk_open
    /\ trk_open' = (conn_end_raises(trk) /\ trk_open)
    /\ trk_raised' = conn_end_raises(trk)
    /\ trk' = IF conn_end_raises(trk) THEN trk ELSE conn_end(trk, trk_clock')
    /\ UNCHANGED << progvars, histvars, repvars, tickvars, ctxvars >>

StatsReset ==
    /\ trk_clock < MaxCalls
    /\ trk_clock' = trk_clock + 1
    /\ trk_before' = trk
    /\ trk_call' = "reset"
    /\ trk_was_open' = trk_open
    /\ trk_open' = trk_open
    /\ trk_raised' = FALSE
    /\ trk' = reset(trk)
    /\ UNCHANGED << progvars, histvars, repvars, tickvars, ctxvars >>

NextStats == StatsBegin \/ StatsEnd \/ StatsReset

SpecStats == Init /\ [][NextStats]_vars

\* ------------------------------------------------- CMAB.get_context on its own
\* speeds, distances and headings on both sides of every threshold
CtxSpeeds == {SpeedSlow - 1, SpeedSlow, SpeedMed - 1, SpeedMed}
CtxDists == {DistNear - 1, DistNear, DistMed - 1, DistMed}
dir_width == FullCircle \div dir_group
CtxHeadings ==
    {0, FullCircle - 1}
    \cup UNION { {dir_width * i - 1, dir_width * i, dir_width * i + 1} : i \in 1..(dir_group - 1) }
    \cup {dir_width \div 2}
CtxProfiles == [speed : CtxSpeeds, dist : CtxDists, dir : CtxHeadings]

\* one CMAB object, as the __main__ settings make it
InitContext ==
    /\ Init
    /\ policy = "CMAB"
    /\ max_active_beam = 1
    /\ stop_time = MaxTime
    /\ exploration_stop_time = MaxTime

GetContext ==
    /\ \E beam \in Beams, a \in CtxProfiles, speed_on \in BOOLEAN :
         ctx_call' = [beam |-> beam, a |-> a, use_speed |-> speed_on,
                      key |-> CMAB_get_context(beam, a, speed_on)]
    /\ UNCHANGED << progvars, histvars, trkvars, repvars, tickvars >>

NextContext == GetContext

SpecContext == InitContext /\ [][NextContext]_vars

\* ===================================================================== claims
Serving == {b \in Beams : serving_node[b] # None}

\* the (beam, vehicle) pairs a do_pairing scan can take in the current state
Eligible ==
    { e \in Beams \X Vehicles :
        /\ serving_node[e[1]] = None
        /\ associated_bs[e[2]] = None
        /\ cqi[e[1]][e[2]] > 0 }

\* the end of a tick: the fill loop is over
TickOver == pc \in {"progress", "idle", "done"}

\* the step is do_mobility's first loop
IsMobilityStep == sim_time' # sim_time

\* the step calls show_outcome
IsReportStep == sim_next_progress' # sim_next_progress \/ (pc = "idle" /\ pc' = "done")

\* C1: a beam serves a vehicle exactly when that vehicle's associated_bs is the
\* beam, so no vehicle is served by two beams and no beam serves two vehicles.
C1_ServingIffAssociated ==
    \A b \in Beams, v \in Vehicles :
        (serving_node[b] = v) <=> (associated_bs[v] = b)

\* a connection is up between ticks after another one was lost
C1_Witness ==
    /\ pc = "idle"
    /\ Serving # {}
    /\ \E b \in Beams : h_conn[b] > 0

\* C2: at the end of every tick at most max_active_beam beams are serving.
C2_CapacityRespected ==
    TickOver => Cardinality(Serving) <= max_active_beam

\* the limit is reached while an idle beam still hears an unserved vehicle
C2_Witness ==
    /\ pc = "progress"
    /\ Cardinality(Serving) = max_active_beam
    /\ max_active_beam < NumBeams
    /\ Eligible # {}

\* C3: at the end of every tick, each of a beam's two Stats objects has a
\* conn_start_time exactly when the beam is serving.
C3_StartOpenIffServing ==
    TickOver =>
        \A b \in Beams :
            /\ (stats[b].conn_start_time # None) <=> (serving_node[b] # None)
            /\ (stats2[b].conn_start_time # None) <=> (serving_node[b] # None)

\* C4: conn_end on a Stats object with no open connection, and conn_begin on
\* one that is open, raise and leave the object as it was.
C4_MisuseRaises ==
    (\/ (trk_call = "end" /\ ~trk_was_open)
     \/ (trk_call = "begin" /\ trk_was_open))
        => (trk_raised /\ trk = trk_before)

C5_LifetimeIsHistory ==
    \A b \in Beams :
        /\ stats[b].total_time = h_time[b]
        /\ stats[b].total_conn = h_conn[b]

C5_EndCountsOnce ==
    IsMobilityStep =>
        \A b \in Beams :
            IF h_lost'[b] # None
            THEN /\ stats'[b].total_conn = stats[b].total_conn + 1
                 /\ stats2'[b].total_conn = stats2[b].total_conn + 1
            ELSE /\ stats'[b] = stats[b]
                 /\ stats2'[b] = stats2[b]

\* C5: a beam's lifetime Stats holds the summed durations and the number of
\* the beam's ended connections; a connection end adds one to the count of both
\* Stats objects of its beam and leaves those of the other beams unchanged.
C5_TrackerAccounting == [](C5_LifetimeIsHistory) /\ [][C5_EndCountsOnce]_vars

\* one beam has ended two connections while the other has ended none
C5_Witness ==
    \E b, c \in Beams :
        /\ h_conn[b] = 2
        /\ h_time[b] >= 2
        /\ h_conn[c] = 0
        /\ h_start[c] # None

C6_ResetStep ==
    IsReportStep =>
        \A b \in Beams :
            /\ stats2'[b].total_time = 0
            /\ stats2'[b].total_conn = 0
            /\ stats2'[b].conn_start_time = stats2[b].conn_start_time
            /\ stats'[b] = stats[b]

C6_EndStep ==
    IsMobilityStep =>
        \A b \in Beams :
            h_lost'[b] # None =>
                stats2'[b].total_time = stats2[b].total_time + (sim_time' - h_lost'[b])

\* C6: show_outcome zeroes total_time and total_conn of every stats2 object and
\* leaves its conn_start_time and the lifetime stats unchanged; a connection
\* that ends adds its whole duration, from its start, to the stats2 total.
C6_ResetKeepsOpenConnection == [][C6_ResetStep /\ C6_EndStep]_vars

\* a connection made before the last report has just ended, and the session
\* total holds more than the time since that report
C6_Witness ==
    /\ pc = "fill"
    /\ \E b \in Beams :
        /\ h_lost[b] # None
        /\ h_reset # None
        /\ h_lost[b] < h_reset
        /\ stats2[b].total_time = sim_time - h_lost[b]
        /\ stats2[b].total_time > sim_time - h_reset

\* C7: under MAB and CMAB, get_past_reward of a context is None while no
\* connection made in that context has ended, and is otherwise the summed
\* durations of those connections over their number, times time_unit.
C7_PredictIsRunningAverage ==
    IsBandit(policy) =>
        \A k \in ContextKeys :
            get_past_reward(k, arm_total_reward, arm_total_count) =
                IF h_arm_conn[k] = 0 THEN NoReward
                ELSE << h_arm_time[k] * time_unit, h_arm_conn[k] >>

\* one context is in the table with no pull yet, another has ended connections
C7_Witness ==
    /\ IsBandit(policy)
    /\ \E k \in DOMAIN arm_total_count : arm_total_count[k] = 0
    /\ \E k \in ContextKeys : h_arm_conn[k] > 0 /\ h_arm_time[k] > h_arm_conn[k]

ColdStart ==
    /\ IsBandit(policy)
    /\ sim_time >= exploration_stop_time
    /\ \A k \in DOMAIN arm_total_count : arm_total_count[k] = 0

\* C8: past the exploration stop time, with no context pulled yet, the
\* do_pairing of MAB and CMAB returns None.
C8_ColdStartReturnsNone ==
    (pc = "paired" /\ ColdStart) => pair = NoPair

\* None is returned although an idle beam hears an unserved vehicle
C8_Witness ==
    /\ pc = "paired"
    /\ ColdStart
    /\ pair = NoPair
    /\ Eligible # {}

PredictedOf(e) ==
    get_past_reward(get_context(policy, e[1], attrs[e[2]], use_speed),
                    arm_total_reward, arm_total_count)

TopRanked(p) ==
    /\ << p[1], p[2] >> \in Eligible
    /\ PredictedOf(p) # NoReward
    /\ \A e \in Eligible :
        PredictedOf(e) = NoReward \/ ~RewardGreater(PredictedOf(e), PredictedOf(p))

\* C9: before the exploration stop time the do_pairing of MAB and CMAB can
\* return exactly what RandomSelection.do_pairing can, whatever the arm table
\* holds; from that time on it returns one result, and a pair it returns has a
\* predicted reward that no other pair it could take exceeds.
C9_ExploreThenExploit ==
    (pc = "fill" /\ IsBandit(policy) /\ num_active_beam < max_active_beam) =>
        LET R == { r.pair : r \in do_pairing(sim_time, serving_node, associated_bs, cqi, Algo) }
        IN  IF sim_time < exploration_stop_time
            THEN R = RandomSelection_do_pairing(serving_node, associated_bs, cqi)
            ELSE /\ Cardinality(R) = 1
                 /\ \A p \in R : p = NoPair \/ TopRanked(p)

\* exploration with pulled arms in the table and more than one possible pair
C9_Witness ==
    /\ pc = "fill"
    /\ IsBandit(policy)
    /\ num_active_beam < max_active_beam
    /\ sim_time < exploration_stop_time
    /\ \E k \in DOMAIN arm_total_count : arm_total_count[k] > 0
    /\ Cardinality(RandomSelection_do_pairing(serving_node, associated_bs, cqi)) > 1

ScannedBefore(e, p) == e[1] < p[1] \/ (e[1] = p[1] /\ e[2] < p[2])

\* C10: HighestCQI.do_pairing returns None only when no idle beam hears an
\* unserved vehicle; otherwise it returns a pair of the highest cqi, the first
\* such pair in the order of the scan (beams, then each beam's vehicles).
C10_HighestFirstMaximum ==
    (pc = "paired" /\ policy = "HighestCQI") =>
        IF pair = NoPair THEN Eligible = {}
        ELSE /\ << pair[1], pair[2] >> \in Eligible
             /\ pair[3] = cqi[pair[1]][pair[2]]
             /\ \A e \in Eligible :
                  /\ cqi[e[1]][e[2]] <= pair[3]
                  /\ cqi[e[1]][e[2]] = pair[3] => ~ScannedBefore(e, pair)

\* a lower cqi is scanned first and the highest cqi is met twice
C10_Witness ==
    /\ pc = "paired"
    /\ policy = "HighestCQI"
    /\ Serving = {}
    /\ pair = << 1, 2, 2 >>
    /\ cqi[1][1] = 1
    /\ cqi[2][1] = 2

\* C11: whenever do_pairing of any of the four algorithms has returned a pair,
\* its beam serves no vehicle, its vehicle is served by no beam, and the
\* handshake from that beam to that vehicle succeeded with the cqi returned;
\* so a beam or a vehicle of a connection that lasts is never returned.
C11_PairIsEligible ==
    (pc = "paired" /\ pair # NoPair) =>
        /\ << pair[1], pair[2] >> \in Eligible
        /\ pair[3] = cqi[pair[1]][pair[2]]
        /\ pair[1] \notin Serving
        /\ \A b \in Serving : serving_node[b] # pair[2]

\* HighestCQI took (beam 1, vehicle 1) and then returns (beam 2, vehicle 2, 1),
\* although beam 2 hears the served vehicle 1 better
C11_Witness ==
    /\ pc = "paired"
    /\ policy = "HighestCQI"
    /\ serving_node[1] = 1
    /\ h_start[1] = sim_time
    /\ pair = << 2, 2, 1 >>
    /\ cqi[2][1] = 2

\* the variables a do_pairing call is said to leave alone
C12_Frame ==
    << serving_node, associated_bs, stats, arm_total_reward, arm_total_count, arm_info >>

\* the while test with the do_pairing call / a commit / the release loop
C12_IsChooseStep == pc = "fill"
C12_IsCommitStep == pc = "paired" /\ pair # NoPair
C12_IsReleaseStep == pc = "idle" /\ pc' = "fill"

\* a step that changes stats2 in nothing but a reset of its totals
C12_OnlyReset ==
    \A b \in Beams :
        stats2'[b] = [stats2[b] EXCEPT !.total_time = 0, !.total_conn = 0]

C12_ChooseStep ==
    /\ C12_IsChooseStep => UNCHANGED << C12_Frame, stats2 >>
    /\ C12_Frame' # C12_Frame => (C12_IsCommitStep \/ C12_IsReleaseStep)
    /\ stats2' # stats2 =>
          (C12_IsCommitStep \/ C12_IsReleaseStep \/ (IsReportStep /\ C12_OnlyReset))

\* C12: a do_pairing call changes no beam's serving_node, no vehicle's
\* associated_bs, no Stats object and no arm record; these change in the
\* release loop and in a commit, and beside them only show_outcome touches
\* one, zeroing the totals of stats2.
C12_ChooseChangesNothing == [][C12_ChooseStep]_vars

\* the statement as written: the release loop and the commit alone change them
C12_OnlyCommitAndRelease ==
    [][<< C12_Frame, stats2 >>' # << C12_Frame, stats2 >>
         => (C12_IsCommitStep \/ C12_IsReleaseStep)]_vars

\* a bandit's do_pairing has returned a pair in exploitation, with records
\* learnt and a connection open
C12_Witness ==
    /\ pc = "paired"
    /\ pair # NoPair
    /\ IsBandit(policy)
    /\ sim_time >= exploration_stop_time
    /\ Serving # {}
    /\ DOMAIN arm_total_count # {}

\* two (mean, count) figures of a report are the same
SameFigures(f, g) == f[1][1] * g[1][2] = g[1][1] * f[1][2] /\ f[2] = g[2]

ZeroFigures(f) == f[1][1] = 0 /\ f[2] = 0

C13_RepeatStep ==
    (IsReportStep /\ outcome # NoOutcome /\ ~h_events) =>
        \A b \in Beams :
            /\ SameFigures(outcome'[b], outcome[b])
            /\ ZeroFigures(outcome2'[b])

\* C13: a show_outcome that follows another with no connection made or lost
\* in between reports for every beam the Overall Mean and Overall Count of
\* the earlier one, and a Session Mean and Session Count of zero.
C13_RepeatedReport == [][C13_RepeatStep]_vars

\* show_outcome was called twice with nothing in between, and some beam has
\* a connection to report
C13_Witness ==
    /\ h_repeat
    /\ \E b \in Beams : outcome[b][2] > 0 /\ outcome[b][1][1] > 0

\* RandomSelection.do_pairing is about to be called
RandomCalled ==
    /\ pc = "fill"
    /\ fill_more(num_active_beam, max_active_beam)
    /\ \/ policy = "Random"
       \/ IsBandit(policy) /\ Exploring(sim_time, exploration_stop_time)

\* every run of the while loop from the current state
RandomRuns ==
    RandomSelection_runs(Beams \ Serving, associated_bs, cqi, << >>, MaxPicks)

\* C14: RandomSelection.do_pairing ends on every sequence of draws, picks no
\* beam twice in one call (a beam without a vehicle to take is removed), picks
\* idle beams only, and returns None exactly when no idle beam has an
\* unserved vehicle whose handshake succeeds - then after trying every idle
\* beam.
C14_RandomTerminates ==
    RandomCalled =>
        /\ \A r \in RandomRuns :
              /\ r.done
              /\ \A i, j \in 1..Len(r.picked) : i # j => r.picked[i] # r.picked[j]
              /\ \A i \in 1..Len(r.picked) : r.picked[i] \notin Serving
              /\ (r.pair = NoPair) <=> (Eligible = {})
              /\ r.pair = NoPair =>
                    {r.picked[i] : i \in 1..Len(r.picked)} = Beams \ Serving
        /\ {r.pair : r \in RandomRuns}
             = RandomSelection_do_pairing(serving_node, associated_bs, cqi)

\* the call can pick a beam that hears nobody, remove it, and pick a beam
\* that has a vehicle to take
C14_Witness ==
    /\ RandomCalled
    /\ \E r \in RandomRuns : Len(r.picked) = 2 /\ r.pair # NoPair

\* a do_pairing call of MAB or CMAB has returned from the exploitation branch
Exploited ==
    /\ pc = "paired"
    /\ IsBandit(policy)
    /\ ~Exploring(sim_time, exploration_stop_time)

SameReward(p, h) == p[1] * h[2] = h[1] * p[2]

\* C15: in exploitation the do_pairing of MAB and CMAB returns a pair it could
\* take whose context has a predicted reward, the highest among the pairs it
\* could take, and the first of these in the order of the scan; it returns
\* None only when no pair it could take has a predicted reward, however low
\* the predictions are.
C15_ExploitFirstHighest ==
    Exploited =>
        IF pair = NoPair
        THEN \A e \in Eligible : PredictedOf(e) = NoReward
        ELSE /\ TopRanked(pair)
             /\ pair[3] = cqi[pair[1]][pair[2]]
             /\ \A e \in Eligible :
                  (PredictedOf(e) # NoReward
                     /\ SameReward(PredictedOf(e), PredictedOf(pair)))
                  => ~ScannedBefore(e, pair)

\* the pair returned was scanned after a pair with a lower prediction
C15_Witness ==
    /\ Exploited
    /\ pair # NoPair
    /\ \E e \in Eligible :
          /\ ScannedBefore(e, pair)
          /\ PredictedOf(e) # NoReward
          /\ RewardGreater(PredictedOf(pair), PredictedOf(e))

\* a step of the fill loop that calls do_pairing
IsCallStep == pc = "fill" /\ pc' = "paired"

C16_NoCallAfterNone == h_none => ~IsCallStep

C16_CallsBounded == h_calls <= h_free

\* C16: in one tick, once a do_pairing call returned None no other call is
\* made, and the fill loop makes at most as many calls as max_active_beam
\* exceeds the number of beams still serving after the release loop.
C16_FillLoopBounded == [](C16_CallsBounded) /\ [][C16_NoCallAfterNone]_vars

\* a None ended the loop after a commit, with capacity left over
C16_Witness ==
    /\ pc = "progress"
    /\ h_none
    /\ h_calls = 2
    /\ h_free = 3
    /\ num_active_beam = 1

\* the pulls of all arm records together
TotalCount(count) == SumOver(DOMAIN count, count)

\* a Stats object told once of a connection that began at `start` and ends at `sim`
EndedOnce(s1, s, start, sim) ==
    /\ s1.total_conn = s.total_conn + 1
    /\ s1.total_time = s.total_time + (sim - start)

\* the release loop, beam by beam
C17_ReleaseStep ==
    C12_IsReleaseStep =>
        /\ \A b \in Beams :
              LET v == serving_node[b]
              IN  IF v = None
                  THEN serving_node'[b] = None /\ stats'[b] = stats[b] /\ stats2'[b] = stats2[b]
                  ELSE IF cqi'[b][v] > 0
                  THEN /\ serving_node'[b] = v
                       /\ associated_bs'[v] = b
                       /\ stats'[b] = stats[b]
                       /\ stats2'[b] = stats2[b]
                  ELSE /\ serving_node'[b] = None
                       /\ associated_bs'[v] = None
                       /\ EndedOnce(stats'[b], stats[b], h_start[b], sim_time')
                       /\ EndedOnce(stats2'[b], stats2[b], h_start[b], sim_time')
        /\ IsBandit(policy) =>
              TotalCount(arm_total_count') = TotalCount(arm_total_count)
                + Cardinality({b \in Serving : cqi'[b][serving_node[b]] = 0})
        /\ pc' = "fill" /\ pair' = NoPair /\ h_calls' = 0

\* every other step keeps every connection
C17_OtherStep ==
    ~C12_IsReleaseStep =>
        \A b \in Serving :
            /\ serving_node'[b] = serving_node[b]
            /\ associated_bs'[serving_node[b]] = b

\* C17: a connection ends exactly when the hello of its beam to its vehicle
\* fails in the release loop of a tick. A serving beam whose hello succeeds
\* keeps its vehicle through the tick; one whose hello fails is idle and its
\* vehicle unassociated after the loop, stats and stats2 of the beam have
\* counted one connection of that duration more, the arm records one pull
\* more, and no do_pairing call of the tick has been made yet.
C17_LostIffHelloFails == [][C17_ReleaseStep /\ C17_OtherStep]_vars

\* a tick in which one beam lost its vehicle and the other kept its own
C17_Witness ==
    /\ pc = "fill"
    /\ \E b, c \in Beams :
          /\ h_lost[b] # None
          /\ serving_node[b] = None
          /\ serving_node[c] # None
          /\ h_start[c] < sim_time

\* the value of a key in an arm dict, 0 for a key it does not hold
ArmValue(d, k) == IF k \in DOMAIN d THEN d[k] ELSE 0

\* the beams whose connection the step ends
LostInStep == {b \in Serving : cqi'[b][serving_node[b]] = 0}

C18_EndStep ==
    (C12_IsReleaseStep /\ IsBandit(policy)) =>
        /\ DOMAIN arm_total_count' = DOMAIN arm_total_count
        /\ DOMAIN arm_total_reward' = DOMAIN arm_total_reward
        /\ \A k \in ContextKeys :
              LET ended == {b \in LostInStep : h_key[b] = k}
              IN  /\ ArmValue(arm_total_count', k)
                       = ArmValue(arm_total_count, k) + Cardinality(ended)
                  /\ ArmValue(arm_total_reward', k)
                       = ArmValue(arm_total_reward, k)
                         + SumOver(ended, [b \in Beams |-> sim_time' - h_start[b]])

\* C18: under MAB and CMAB, the end of a connection changes the arm record of
\* one context, the one computed when the connection was made: its
\* arm_total_reward grows by the end time less the start time and its
\* arm_total_count by one, per connection ended; the record of every other
\* context, that of the vehicle's context at the end included, stays as it is.
C18_EndChangesStartRecord == [][C18_EndStep]_vars

\* one connection ended in this tick; it was made in another context than its
\* vehicle shows now, and that other context has no record
C18_Witness ==
    /\ pc = "fill"
    /\ policy = "CMAB"
    /\ \E b \in Beams :
          /\ h_lost_veh[b] # None
          /\ \A c \in Beams \ {b} : h_lost_veh[c] = None
          /\ arm_total_count[h_lost_key[b]] >= 1
          /\ get_context(policy, b, attrs[h_lost_veh[b]], use_speed) # h_lost_key[b]
          /\ get_context(policy, b, attrs[h_lost_veh[b]], use_speed)
               \notin DOMAIN arm_total_count

C19_CallStep ==
    (IsCallStep /\ IsBandit(policy)) => total_pulled' = total_pulled + 1

\* C19: every do_pairing call of MAB or CMAB, in exploration and in
\* exploitation, adds exactly one to total_pulled, whether it returns a pair
\* or None, also when no beam is idle.
C19_EveryCallCounts == [][C19_CallStep]_vars

C20_CountIsHistory ==
    /\ DOMAIN arm_total_count \subseteq ContextKeys
    /\ DOMAIN arm_total_reward = DOMAIN arm_total_count
    /\ \A k \in ContextKeys : ArmValue(arm_total_count, k) = h_arm_conn[k]

C20_GrowStep ==
    \A k \in DOMAIN arm_total_count :
        /\ k \in DOMAIN arm_total_count'
        /\ k \in DOMAIN arm_total_reward'
        /\ arm_total_count'[k] >= arm_total_count[k]
        /\ arm_total_reward'[k] >= arm_total_reward[k]

\* C20: over the ticks of a run, no context is removed from the arm dicts,
\* arm_total_reward and arm_total_count of a context never decrease, and
\* arm_total_count of a context is the number of ended connections that were
\* made in that context.
C20_ArmRecordsGrow == [](C20_CountIsHistory) /\ [][C20_GrowStep]_vars

\* a connection is open in a context that already has ended connections
C20_Witness ==
    \E b \in Beams :
        /\ h_key[b] # NoKey
        /\ h_arm_conn[h_key[b]] >= 1
        /\ arm_total_reward[h_key[b]] >= 1

\* the buckets as the description gives them
DistBucket(dist) == IF dist < 180 THEN "near" ELSE IF dist < 360 THEN "med " ELSE "far "
SpeedBucket(speed) == IF speed < 40 THEN "slow" ELSE IF speed < 50 THEN "med " ELSE "fast"
DirBucket(dir) == CHOOSE i \in 1..4 : dir <= 90 * i /\ \A j \in 1..(i - 1) : dir > 90 * j

\* two calls agree on the beam and on every bucket that is enabled
CtxAgree(beam, a, speed_on, beam2, a2, speed_on2) ==
    /\ beam = beam2
    /\ speed_on = speed_on2
    /\ DistBucket(a.dist) = DistBucket(a2.dist)
    /\ DirBucket(a.dir) = DirBucket(a2.dir)
    /\ speed_on => SpeedBucket(a.speed) = SpeedBucket(a2.speed)

\* C21: for every distance and every heading in [0,360), CMAB.get_context
\* returns a key with the beam, one distance bucket (near below 180, med
\* below 360, else far) and one of 4 direction buckets, the least i with
\* heading <= 90*i; the key has a speed bucket (slow below 40, med below 50,
\* else fast) exactly when use_speed is set; and two calls return the same
\* key exactly when they agree on the beam and on every enabled bucket.
C21_ContextKey ==
    ctx_call # NoCall =>
        LET key == ctx_call.key
            a == ctx_call.a
        IN  /\ key[1] = ctx_call.beam
            /\ key[3] = DistBucket(a.dist)
            /\ key[4] \in 1..4
            /\ key[4] = DirBucket(a.dir)
            /\ (key[2] # "") <=> ctx_call.use_speed
            /\ ctx_call.use_speed => key[2] = SpeedBucket(a.speed)
            /\ \A beam2 \in Beams, a2 \in CtxProfiles, speed_on2 \in BOOLEAN :
                  (CMAB_get_context(beam2, a2, speed_on2) = key)
                  <=> CtxAgree(ctx_call.beam, a, ctx_call.use_speed, beam2, a2, speed_on2)

\* a call with use_speed set, at the edge of the near distances and of the
\* first direction bucket
C21_Witness ==
    /\ ctx_call # NoCall
    /\ ctx_call.use_speed
    /\ ctx_call.a.dist = 180
    /\ ctx_call.a.dir = 90
    /\ ctx_call.key = << ctx_call.beam, SpeedBucket(ctx_call.a.speed), "med ", 1 >>

\* the key MAB.get_context gives a beam
BeamKey(b) == << b, "", "", 0 >>

\* C22: under MAB the arm is the beam: every key of the arm dicts is the key
\* of one beam, and the record of a beam has the count and the total time of
\* the beam's stats, so that the predicted reward of a beam with ended
\* connections is its average connection time.
C22_ArmIsBeam ==
    policy = "MAB" =>
        /\ DOMAIN arm_total_count \subseteq {BeamKey(b) : b \in Beams}
        /\ \A b \in Beams :
              /\ ArmValue(arm_total_count, BeamKey(b)) = stats[b].total_conn
              /\ ArmValue(arm_total_reward, BeamKey(b)) = stats[b].total_time
              /\ LET predicted == get_past_reward(BeamKey(b), arm_total_reward,
                                                  arm_total_count)
                  IN  IF stats[b].total_conn = 0 THEN predicted = NoReward
                      ELSE /\ predicted # NoReward
                           /\ SameReward(predicted,
                                         << get_average_connection_time(stats[b])[1] * time_unit,
                                            get_average_connection_time(stats[b])[2] >>)

\* both beams have ended connections, of different average
C22_Witness ==
    /\ policy = "MAB"
    /\ \A b \in Beams : BeamKey(b) \in DOMAIN arm_total_count /\ stats[b].total_conn >= 1
    /\ ~SameReward(get_average_connection_time(stats[1]),
                   get_average_connection_time(stats[2]))

\* C23: when a tick is over, stats and stats2 of every serving beam hold the
\* same conn_start_time: the time of the tick in which the beam's connection
\* was committed, which is not later than the current time.
C23_StartTimesAgree ==
    TickOver =>
        \A b \in Serving :
            /\ stats[b].conn_start_time = stats2[b].conn_start_time
            /\ stats[b].conn_start_time = h_start[b]
            /\ h_start[b] # None
            /\ stats[b].conn_start_time >= 1
            /\ stats[b].conn_start_time <= sim_time

\* a connection committed in an earlier tick has outlasted a show_outcome,
\* and another was committed in the tick that is over
C23_Witness ==
    /\ pc = "idle"
    /\ \E b, c \in Serving :
          /\ h_start[b] < sim_time
          /\ h_reset # None /\ h_reset >= h_start[b]
          /\ h_start[c] = sim_time

\* C24: under RandomSelection and HighestCQI, when the fill loop of a tick is
\* over either max_active_beam beams are serving or no idle beam has an
\* unserved vehicle whose handshake succeeds in this tick.
C24_CapacityUsed ==
    (pc = "progress" /\ policy \in {"Random", "HighestCQI"}) =>
        \/ Cardinality(Serving) = max_active_beam
        \/ Eligible = {}

\* a tick that committed a pair and then ran out of pairs to take, below
\* max_active_beam, with the idle beam hearing the vehicle just taken
C24_Witness ==
    /\ pc = "progress"
    /\ policy \in {"Random", "HighestCQI"}
    /\ Cardinality(Serving) < max_active_beam
    /\ \E b \in Serving, c \in Beams \ Serving :
          /\ h_start[b] = sim_time
          /\ cqi[c][serving_node[b]] > 0
    /\ h_none

\* every connection the step ends began before the step's time, and added a
\* positive duration to stats, to stats2 and to its arm record
C25_EndStep ==
    C12_IsReleaseStep =>
        \A b \in LostInStep :
            /\ sim_time' > h_start[b]
            /\ sim_time' > stats[b].conn_start_time
            /\ stats'[b].total_time > stats[b].total_time
            /\ stats2'[b].total_time > stats2[b].total_time
            /\ IsBandit(policy) =>
                  arm_total_reward'[h_key[b]] > arm_total_reward[h_key[b]]

C25_PositivePredictions ==
    /\ time_unit > 0
    /\ \A k \in DOMAIN arm_total_count :
          LET predicted == get_past_reward(k, arm_total_reward, arm_total_count)
          IN  predicted # NoReward => (predicted[1] > 0 /\ predicted[2] > 0)
    /\ \A b \in Beams :
          /\ stats[b].total_time >= stats[b].total_conn
          /\ stats2[b].total_time >= stats2[b].total_conn

\* C25: every connection ends at a time greater than the time it began, so
\* every duration added to a Stats object or to an arm record is positive,
\* and every predicted reward that is not None is positive.
C25_DurationsPositive == [](C25_PositivePredictions) /\ [][C25_EndStep]_vars

\* a connection of a bandit run was lost in the tick after the one that made
\* it, and its context has a predicted reward
C25_Witness ==
    /\ pc = "fill"
    /\ IsBandit(policy)
    /\ \E b \in Beams :
          /\ h_lost[b] # None
          /\ sim_time - h_lost[b] = 1
          /\ get_past_reward(h_lost_key[b], arm_total_reward, arm_total_count) # NoReward

\* C26: under MAB and CMAB, the arm_total_count of all contexts add up to the
\* total_conn of the stats of all beams, and the arm_total_reward of all
\* contexts to their total_time.
C26_ArmSumsAreBeamSums ==
    IsBandit(policy) =>
        /\ TotalCount(arm_total_count)
             = SumOver(Beams, [b \in Beams |-> stats[b].total_conn])
        /\ SumOver(DOMAIN arm_total_reward, arm_total_reward)
             = SumOver(Beams, [b \in Beams |-> stats[b].total_time])

\* a CMAB run in which one beam has ended two connections, made in two
\* contexts, and the other beam one
C26_Witness ==
    /\ policy = "CMAB"
    /\ \E b, c \in Beams :
          /\ stats[b].total_conn = 2
          /\ stats[c].total_conn = 1
    /\ \A k \in DOMAIN arm_total_count : arm_total_count[k] <= 1

\* C27: under MAB and CMAB, when a tick is over every served vehicle has an
\* arm_info entry, which holds the context and the time at which its current
\* connection was made; that time is the conn_start_time of its beam's stats
\* and that context is a key of both arm dicts. So the lookup of
\* report_conn_lost never raises and never reads the entry of an earlier
\* connection of the vehicle.
C27_ArmInfoIsCurrent ==
    /\ pc # "crashed"
    /\ (TickOver /\ IsBandit(policy)) =>
          \A b \in Serving :
              LET vehicle == serving_node[b]
              IN  /\ vehicle \in DOMAIN arm_info
                  /\ arm_info[vehicle] = << h_key[b], h_start[b] >>
                  /\ arm_info[vehicle][2] = stats[b].conn_start_time
                  /\ arm_info[vehicle][1] \in DOMAIN arm_total_count
                  /\ arm_info[vehicle][1] \in DOMAIN arm_total_reward

\* a vehicle lost its connection in this tick and was connected again in it,
\* in another context
C27_Witness ==
    /\ pc = "progress"
    /\ IsBandit(policy)
    /\ \E b \in Serving, c \in Beams :
          /\ h_lost_veh[c] = serving_node[b]
          /\ h_start[b] = sim_time
          /\ h_lost_key[c] # h_key[b]
          /\ arm_info[serving_node[b]] = << h_key[b], sim_time >>
====
